---- MODULE Spec2Model ----
(***************************************************************************)
(* Model of pybench.Bench (src/pybench/pybench.py): the request scheduler  *)
(* of an HTTP load generator running on a single-threaded Twisted reactor. *)
(*                                                                         *)
(* One step of the model is one reactor callback (a transport deferred     *)
(* firing, the stop timer firing), except for the loop of the initial      *)
(* _makeRequests(self.Agents) call of run(), which is taken one iteration  *)
(* at a time; no other callback can run while that loop is executing.      *)
(***************************************************************************)
EXTENDS Integers, Sequences, FiniteSets, TLC

\* ---------------------------------------------------------------- bounds
MaxRequests == 4
MaxConcurrency == 3
\* under a time limit the stop timer fires before more than MaxQueries
\* requests have been sent from completion callbacks
MaxQueries == 4
\* number of agents in the runs that reach TimelimitRequests
MaxCapConcurrency == 2
\* number of exceptions raised inside _callback in one run
MaxFaults == 1

\* ------------------------------------------------------------- constants
\* the value run() gives self.Requests when a time limit is set
TimelimitRequests == 5000

\* Python values stored in Result.Code: an int or a twisted Failure
PyInt(n) == [type |-> "int", val |-> n]
PyFailure == [type |-> "Failure", val |-> 0]

\* what the transport can deliver for a request
Responses == {[code |-> 200], [code |-> 500]}
Errors == {PyFailure}

\* Timelimit values: 0 stands for None (no -t); 1 for any positive limit
TimelimitValues == {0, 1}

Max(a, b) == IF a >= b THEN a ELSE b
\* F(x), with x evaluated once
Let(x, F(_)) == CHOOSE r \in {F(v) : v \in {x}} : TRUE
Range(f) == {f[x] : x \in DOMAIN f}

VARIABLES
  requests,       \* the requests argument given to Bench.__init__
  Requests,       \* self.Requests
  Concurrency,    \* self.Concurrency
  Timelimit,      \* self.Timelimit
  Results,        \* self.Results: sequence of Result objects
  ActiveQueries,  \* self.ActiveQueries: dict agent -> deferred
  QueriesMade,    \* self.QueriesMade
  StopCall,       \* self.StopCall: the DelayedCall of the stop timer
  RunDeferred,    \* self.RunDeferred
  Stopped,        \* self.Stopped
  dfrs,           \* the deferreds returned by agent.request, in issue order
  drains,         \* the DeferredLists created by stop(), in creation order
  errors,         \* number of AlreadyCalledError raised by RunDeferred.callback
  clock,          \* time.time(), one tick per reactor callback
  raised,         \* the exceptions raised inside _callback, in order
  pc,             \* "init", "fanout" (inside run()'s dispatch loop), "reactor"
  todo            \* agents the fan-out loop has still to visit

vars == <<requests, Requests, Concurrency, Timelimit, Results, ActiveQueries,
          QueriesMade, StopCall, RunDeferred, Stopped, dfrs, drains, errors,
          clock, raised, pc, todo>>

\* the object state as one record, so that methods are functions self -> self
Self ==
  [Requests |-> Requests, Concurrency |-> Concurrency, Timelimit |-> Timelimit,
   Results |-> Results, ActiveQueries |-> ActiveQueries,
   QueriesMade |-> QueriesMade, StopCall |-> StopCall,
   RunDeferred |-> RunDeferred, Stopped |-> Stopped, dfrs |-> dfrs,
   drains |-> drains, errors |-> errors, clock |-> clock, raised |-> raised]

Becomes(s) ==
  /\ Requests' = s.Requests
  /\ Concurrency' = s.Concurrency
  /\ Timelimit' = s.Timelimit
  /\ Results' = s.Results
  /\ ActiveQueries' = s.ActiveQueries
  /\ QueriesMade' = s.QueriesMade
  /\ StopCall' = s.StopCall
  /\ RunDeferred' = s.RunDeferred
  /\ Stopped' = s.Stopped
  /\ dfrs' = s.dfrs
  /\ drains' = s.drains
  /\ errors' = s.errors
  /\ clock' = s.clock
  /\ raised' = s.raised

\* ---------------------------------------------------------------- Result
NewResult ==
  [Started |-> 0, Finished |-> 0, Elapsed |-> 0, Code |-> PyInt(0),
   Timeout |-> FALSE]

start(r, now) == [r EXCEPT !.Started = now]

done(r, code, now) ==
  [r EXCEPT !.Finished = now, !.Elapsed = now - r.Started, !.Code = code,
            !.Timeout = FALSE]

\* ------------------------------------------------- twisted: DelayedCall
NoDelayedCall == [none |-> TRUE, called |-> FALSE, cancelled |-> FALSE, time |-> 0]
callLater == [none |-> FALSE, called |-> FALSE, cancelled |-> FALSE, time |-> 0]
active(call) == ~call.cancelled /\ ~call.called

\* ---------------------------------------------------- twisted: Deferred
NoDeferred == [none |-> TRUE, called |-> FALSE, result |-> <<>>]
NewDeferred == [none |-> FALSE, called |-> FALSE, result |-> <<>>]

\* Deferred.callback on the run deferred: a second call raises
\* AlreadyCalledError and leaves the first result in place
callback(s, result) ==
  IF s.RunDeferred.called
    THEN [s EXCEPT !.errors = @ + 1]
    ELSE [s EXCEPT !.RunDeferred = [none |-> FALSE, called |-> TRUE, result |-> result]]

\* ------------------------------------------------------------------ Bench
Agents(c) == [i \in 1..Max(c, 0) |-> i]

\* _done that forgets to fire the run deferred
_done_noCallback(s) == s

_done(s) == callback(s, s.Results)

\* defer.DeferredList(ds): counts the deferreds that already fired and
\* fires at once when none is left
DeferredList(s, ds) ==
  LET waiting == {d \in ds : ~s.dfrs[d].called}
  IN [waiting |-> waiting, fired |-> waiting = {}]

\* stop() that forgets to set self.Stopped
stop_noStoppedFlag(s) ==
  LET dl == DeferredList(s, Range(s.ActiveQueries))
      s2 == [s EXCEPT !.drains = Append(@, dl)]
      s3 == IF dl.fired THEN _done(s2) ELSE s2
  IN IF ~s3.StopCall.none /\ active(s3.StopCall)
       THEN [s3 EXCEPT !.StopCall.cancelled = TRUE]
       ELSE s3

\* stop() that leaves the stop timer armed
stop_keepsTimer(s) ==
  LET s1 == [s EXCEPT !.Stopped = TRUE]
      dl == DeferredList(s1, Range(s1.ActiveQueries))
      s2 == [s1 EXCEPT !.drains = Append(@, dl)]
  IN IF dl.fired THEN _done(s2) ELSE s2

stop(s) ==
  LET s1 == [s EXCEPT !.Stopped = TRUE]
      dl == DeferredList(s1, Range(s1.ActiveQueries))
      s2 == [s1 EXCEPT !.drains = Append(@, dl)]
      s3 == IF dl.fired THEN _done(s2) ELSE s2
  IN IF ~s3.StopCall.none /\ active(s3.StopCall)
       THEN [s3 EXCEPT !.StopCall.cancelled = TRUE]
       ELSE s3

\* loop body that tests self.Stopped for every agent
makeRequest_checksStopped(s, agent) ==
  LET result == start(NewResult, s.clock)
      dfr == [agent |-> agent, result |-> Len(s.Results) + 1, called |-> FALSE]
      d == Len(s.dfrs) + 1
      s1 == [s EXCEPT !.Results = Append(@, result),
                      !.dfrs = Append(@, dfr),
                      !.ActiveQueries =
                         [a \in DOMAIN @ \cup {agent} |->
                            IF a = agent THEN d ELSE @[a]],
                      !.QueriesMade = @ + 1]
  IN IF s.Stopped THEN s
     ELSE Let(s1, LAMBDA t : IF t.QueriesMade >= t.Requests THEN stop(t) ELSE t)

\* loop body that counts the request and stops before recording its
\* deferred in self.ActiveQueries
makeRequest_stopsBeforeTracking(s, agent) ==
  LET result == start(NewResult, s.clock)
      dfr == [agent |-> agent, result |-> Len(s.Results) + 1, called |-> FALSE]
      d == Len(s.dfrs) + 1
      s1 == [s EXCEPT !.Results = Append(@, result),
                      !.dfrs = Append(@, dfr),
                      !.QueriesMade = @ + 1]
  IN Let(s1, LAMBDA t :
       Let(IF t.QueriesMade >= t.Requests THEN stop(t) ELSE t, LAMBDA u :
         [u EXCEPT !.ActiveQueries =
                      [a \in DOMAIN @ \cup {agent} |->
                         IF a = agent THEN d ELSE @[a]]]))

\* loop body that stops only after the budget has been exceeded
makeRequest_stopsLate(s, agent) ==
  LET result == start(NewResult, s.clock)
      dfr == [agent |-> agent, result |-> Len(s.Results) + 1, called |-> FALSE]
      d == Len(s.dfrs) + 1
      s1 == [s EXCEPT !.Results = Append(@, result),
                      !.dfrs = Append(@, dfr),
                      !.ActiveQueries =
                         [a \in DOMAIN @ \cup {agent} |->
                            IF a = agent THEN d ELSE @[a]],
                      !.QueriesMade = @ + 1]
  IN Let(s1, LAMBDA t : IF t.QueriesMade > t.Requests THEN stop(t) ELSE t)

\* one iteration of the for loop of _makeRequests
makeRequest(s, agent) ==
  LET result == start(NewResult, s.clock)
      dfr == [agent |-> agent, result |-> Len(s.Results) + 1, called |-> FALSE]
      d == Len(s.dfrs) + 1
      s1 == [s EXCEPT !.Results = Append(@, result),
                      !.dfrs = Append(@, dfr),
                      !.ActiveQueries =
                         [a \in DOMAIN @ \cup {agent} |->
                            IF a = agent THEN d ELSE @[a]],
                      !.QueriesMade = @ + 1]
  IN Let(s1, LAMBDA t : IF t.QueriesMade >= t.Requests THEN stop(t) ELSE t)

RECURSIVE forAgents(_, _)
forAgents(s, agents) ==
  IF agents = <<>> THEN s
  ELSE Let(makeRequest(s, Head(agents)), LAMBDA t : forAgents(t, Tail(agents)))

_makeRequests(s, agents) ==
  IF s.Stopped THEN s ELSE forAgents(s, agents)

\* _callback that only records the result and leaves the agent idle
_callback_noRedispatch(s, response, result, agent) ==
  [s EXCEPT !.Results[result] = done(@, PyInt(response.code), s.clock)]

\* _callback that hands every agent to _makeRequests, not only its own
_callback_allAgents(s, response, result, agent) ==
  LET s1 == [s EXCEPT !.Results[result] = done(@, PyInt(response.code), s.clock)]
  IN _makeRequests(s1, Agents(s.Concurrency))

\* _callback that stamps the newest Result instead of the one it was given
_callback_stampsLast(s, response, result, agent) ==
  LET s1 == [s EXCEPT !.Results[Len(s.Results)] =
                         done(@, PyInt(response.code), s.clock)]
  IN _makeRequests(s1, <<agent>>)

\* _callback that puts the Result in self.Results when the request completes
_callback_appends(s, response, result, agent) ==
  LET r == done(s.Results[result], PyInt(response.code), s.clock)
      s1 == [s EXCEPT !.Results = Append([@ EXCEPT ![result] = r], r)]
  IN _makeRequests(s1, <<agent>>)

_callback(s, response, result, agent) ==
  LET s1 == [s EXCEPT !.Results[result] = done(@, PyInt(response.code), s.clock)]
  IN _makeRequests(s1, <<agent>>)

\* _errback that puts the failed Result in self.Results once more
_errback_appends(s, error, result, agent) ==
  LET r == done(s.Results[result], error, s.clock)
      s1 == [s EXCEPT !.Results = Append([@ EXCEPT ![result] = r], r)]
  IN _makeRequests(s1, <<agent>>)

\* _errback that treats a failed request as the end of the test
_errback_stops(s, error, result, agent) ==
  LET s1 == [s EXCEPT !.Results[result] = done(@, error, s.clock)]
  IN IF s1.Stopped THEN s1 ELSE stop(s1)

_errback(s, error, result, agent) ==
  LET s1 == [s EXCEPT !.Results[result] = done(@, error, s.clock)]
  IN _makeRequests(s1, <<agent>>)

\* DeferredList._cbDeferred for deferred d on the k-th DeferredList and on
\* those created after it
RECURSIVE _cbDeferred(_, _, _)
_cbDeferred(s, d, k) ==
  IF k > Len(s.drains) THEN s
  ELSE IF d \notin s.drains[k].waiting THEN _cbDeferred(s, d, k + 1)
  ELSE LET waiting == s.drains[k].waiting \ {d}
           s1 == [s EXCEPT !.drains[k] = [waiting |-> waiting, fired |-> waiting = {}]]
           s2 == IF waiting = {} THEN _done(s1) ELSE s1
       IN Let(s2, LAMBDA t : _cbDeferred(t, d, k + 1))

\* the transport fires deferred d: its callback chain runs, first the
\* _callback/_errback pair added by _makeRequests, then the callbacks the
\* DeferredLists added to it
fire(s, d, outcome) ==
  LET s0 == [s EXCEPT !.clock = @ + 1, !.dfrs[d].called = TRUE]
      s1 == IF outcome \in Errors
              THEN _errback(s0, outcome, s.dfrs[d].result, s.dfrs[d].agent)
              ELSE _callback(s0, outcome, s.dfrs[d].result, s.dfrs[d].agent)
  IN Let(s1, LAMBDA t : _cbDeferred(t, d, 1))

\* the statements of _callback's call chain that can raise after the Result
\* has been stamped: agent.request of the re-dispatch (line 101), and the
\* print of the stop() that the re-dispatch calls (line 138)
FaultPoints == {"request", "print"}

\* _callback gets to the point: its _makeRequests is not cut short by
\* self.Stopped, and stop() is called only by the dispatch that reaches
\* self.Requests
reaches(s, point) ==
  /\ ~s.Stopped
  /\ point = "print" => s.QueriesMade + 1 >= s.Requests

\* _callback up to the statement at the point, which raises
_callback_upto(s, response, result, agent, point) ==
  LET s1 == [s EXCEPT !.Results[result] = done(@, PyInt(response.code), s.clock)]
      new == start(NewResult, s.clock)
      dfr == [agent |-> agent, result |-> Len(s.Results) + 1, called |-> FALSE]
      d == Len(s.dfrs) + 1
  IN IF point = "request"
       THEN [s1 EXCEPT !.Results = Append(@, new)]
       ELSE [s1 EXCEPT !.Results = Append(@, new),
                       !.dfrs = Append(@, dfr),
                       !.ActiveQueries =
                          [a \in DOMAIN @ \cup {agent} |->
                             IF a = agent THEN d ELSE @[a]],
                       !.QueriesMade = @ + 1,
                       !.Stopped = TRUE]

\* the transport fires deferred d with a response and _callback raises at
\* the point: the exception becomes the Failure handed to the next errback
\* of the chain, which is the _errback that _makeRequests added after
\* _callback; the DeferredList callbacks follow
fireRaising(s, d, response, point) ==
  LET s0 == [s EXCEPT !.clock = @ + 1, !.dfrs[d].called = TRUE]
      s1 == _callback_upto(s0, response, s.dfrs[d].result, s.dfrs[d].agent, point)
      s2 == [s1 EXCEPT !.raised =
                          Append(@, [dfr |-> d, at |-> point,
                                     result |-> s1.Results[s.dfrs[d].result],
                                     sent |-> s1.QueriesMade])]
      s3 == _errback(s2, PyFailure, s.dfrs[d].result, s.dfrs[d].agent)
  IN Let(s3, LAMBDA t : _cbDeferred(t, d, 1))

\* run() that arms the stop timer but leaves self.Requests as configured
run_keepsRequests(s) ==
  LET s1 == [s EXCEPT !.clock = @ + 1, !.RunDeferred = NewDeferred]
  IN IF s1.Timelimit # 0 THEN [s1 EXCEPT !.StopCall = callLater] ELSE s1

\* run() up to the entry of the loop of _makeRequests(self.Agents)
run(s) ==
  LET s1 == [s EXCEPT !.clock = @ + 1, !.RunDeferred = NewDeferred]
  IN IF s1.Timelimit # 0
       THEN [s1 EXCEPT !.Requests = TimelimitRequests, !.StopCall = callLater]
       ELSE s1

\* ------------------------------------------------------------------ Init
Init ==
  /\ requests \in -1..MaxRequests
  /\ Requests = requests
  /\ Concurrency \in -1..MaxConcurrency
  /\ Timelimit \in TimelimitValues
  /\ Results = <<>>
  /\ ActiveQueries = <<>>
  /\ QueriesMade = 0
  /\ StopCall = NoDelayedCall
  /\ RunDeferred = NoDeferred
  /\ Stopped = FALSE
  /\ dfrs = <<>>
  /\ drains = <<>>
  /\ errors = 0
  /\ clock = 0
  /\ raised = <<>>
  /\ pc = "init"
  /\ todo = <<>>

\* --------------------------------------------------------------- actions
\* run_test calls bench.run()
RunStart ==
  /\ pc = "init"
  /\ \E s \in {run(Self)} :
        /\ Becomes(s)
        /\ pc' = "fanout"
        /\ todo' = IF s.Stopped THEN <<>> ELSE Agents(s.Concurrency)
  /\ UNCHANGED requests

\* one iteration of the loop of _makeRequests(self.Agents)
FanOutStep ==
  /\ pc = "fanout"
  /\ todo # <<>>
  /\ \E s \in {makeRequest(Self, Head(todo))} : Becomes(s)
  /\ todo' = Tail(todo)
  /\ UNCHANGED <<requests, pc>>

\* the loop is over, run() returns self.RunDeferred to the reactor
RunReturn ==
  /\ pc = "fanout"
  /\ todo = <<>>
  /\ pc' = "reactor"
  /\ UNCHANGED <<requests, Requests, Concurrency, Timelimit, Results,
                 ActiveQueries, QueriesMade, StopCall, RunDeferred, Stopped,
                 dfrs, drains, errors, clock, raised, todo>>

\* a request completes with a response or a failure
Complete(d) ==
  /\ pc = "reactor"
  /\ ~dfrs[d].called
  /\ (~StopCall.none /\ active(StopCall)) => QueriesMade < MaxQueries
  /\ \E outcome \in Responses \cup Errors :
        \E s \in {fire(Self, d, outcome)} : Becomes(s)
  /\ UNCHANGED <<requests, pc, todo>>

\* the reactor runs the delayed call self.stop
TimerFire ==
  /\ pc = "reactor"
  /\ ~StopCall.none
  /\ active(StopCall)
  /\ \E s \in {stop([Self EXCEPT !.clock = @ + 1,
                                  !.StopCall.called = TRUE,
                                  !.StopCall.time = clock + 1])} : Becomes(s)
  /\ UNCHANGED <<requests, pc, todo>>

Next ==
  \/ RunStart
  \/ FanOutStep
  \/ RunReturn
  \/ \E d \in 1..Len(dfrs) : Complete(d)
  \/ TimerFire

Spec == Init /\ [][Next]_vars

\* the reactor keeps running: every issued request completes, the timer
\* fires when due, and run() runs to its end
Fairness ==
  /\ WF_vars(RunStart)
  /\ WF_vars(FanOutStep)
  /\ WF_vars(RunReturn)
  /\ WF_vars(\E d \in 1..Len(dfrs) : Complete(d))
  /\ WF_vars(TimerFire)

FairSpec == Spec /\ Fairness

\* ------------------------------------------ runs in which _callback raises
\* a request completes with a response and _callback raises
CompleteRaising(d) ==
  /\ pc = "reactor"
  /\ ~dfrs[d].called
  /\ (~StopCall.none /\ active(StopCall)) => QueriesMade < MaxQueries
  /\ Len(raised) < MaxFaults
  /\ \E response \in Responses :
       \E point \in {p \in FaultPoints : reaches(Self, p)} :
         \E s \in {fireRaising(Self, d, response, point)} : Becomes(s)
  /\ UNCHANGED <<requests, pc, todo>>

FaultNext ==
  \/ Next
  \/ \E d \in 1..Len(dfrs) : CompleteRaising(d)

FaultSpec == Init /\ [][FaultNext]_vars

\* ------------------------------------- runs that reach TimelimitRequests
\* Runs under a time limit in which the requests argument plays no part
\* (run() overwrites self.Requests), the transport answers every request
\* with 200 in the order the requests were issued, and the stop timer fires
\* at any moment of the first MaxQueries or of the last MaxQueries requests
\* before TimelimitRequests, or never before TimelimitRequests is reached.
CapStart ==
  /\ Init
  /\ Timelimit # 0
  /\ requests = 1
  /\ Concurrency \in 1..MaxCapConcurrency

\* the state such a run with c agents is in when n >= c requests have been
\* sent, all but the last c of them have completed and the timer is pending
Underway(c, n) ==
  [Requests |-> TimelimitRequests, Concurrency |-> c, Timelimit |-> 1,
   Results |->
     [i \in 1..n |->
        LET started == IF i <= c THEN 1 ELSE i - c + 1
        IN IF i <= n - c
             THEN done(start(NewResult, started), PyInt(200), i + 1)
             ELSE start(NewResult, started)],
   ActiveQueries |->
     [a \in 1..c |-> CHOOSE i \in (n - c + 1)..n : ((i - 1) % c) + 1 = a],
   QueriesMade |-> n, StopCall |-> callLater, RunDeferred |-> NewDeferred,
   Stopped |-> FALSE,
   dfrs |-> [i \in 1..n |->
               [agent |-> ((i - 1) % c) + 1, result |-> i, called |-> i <= n - c]],
   drains |-> <<>>, errors |-> 0, clock |-> n - c + 1, raised |-> <<>>]

\* such a run MaxQueries requests before TimelimitRequests
CapNearBudget ==
  /\ requests = 1
  /\ pc = "reactor"
  /\ todo = <<>>
  /\ \E c \in 1..MaxCapConcurrency :
        \E s \in {Underway(c, TimelimitRequests - MaxQueries)} :
           /\ Requests = s.Requests
           /\ Concurrency = s.Concurrency
           /\ Timelimit = s.Timelimit
           /\ Results = s.Results
           /\ ActiveQueries = s.ActiveQueries
           /\ QueriesMade = s.QueriesMade
           /\ StopCall = s.StopCall
           /\ RunDeferred = s.RunDeferred
           /\ Stopped = s.Stopped
           /\ dfrs = s.dfrs
           /\ drains = s.drains
           /\ errors = s.errors
           /\ clock = s.clock
           /\ raised = s.raised

CapInit == CapStart \/ CapNearBudget

\* the oldest request in flight completes with a 200 response
CapComplete(d) ==
  /\ pc = "reactor"
  /\ ~dfrs[d].called
  /\ IF d = 1 THEN TRUE ELSE dfrs[d - 1].called
  /\ \E s \in {fire(Self, d, [code |-> 200])} : Becomes(s)
  /\ UNCHANGED <<requests, pc, todo>>

CapTimerFire ==
  /\ IF QueriesMade <= MaxQueries THEN TRUE
     ELSE QueriesMade >= TimelimitRequests - MaxQueries
  /\ TimerFire

CapNext ==
  \/ RunStart
  \/ FanOutStep
  \/ RunReturn
  \/ \E d \in 1..Len(dfrs) : CapComplete(d)
  \/ CapTimerFire

CapSpec == CapInit /\ [][CapNext]_vars

\* ------------------------------------------------------------ properties
InFlight == {d \in 1..Len(dfrs) : ~dfrs[d].called}
NumAgents == Max(Concurrency, 0)
FinishedAfter(t) == {i \in 1..Len(Results) : Results[i].Finished > t}
ValidConfig == Concurrency >= 1 /\ requests >= 1

\* C1: without a time limit (requests >= 1, Concurrency >= 1) never more
\* than `requests` requests are sent, and when the run deferred fires exactly
\* `requests` were sent and the list it is fired with has `requests` entries.
C1_Budget ==
  (Timelimit = 0 /\ ValidConfig) =>
     /\ QueriesMade <= requests
     /\ RunDeferred.called =>
          (QueriesMade = requests /\ Len(RunDeferred.result) = requests)

\* C2: the run deferred has fired only if no request is in flight.
C2_DrainComplete == (ValidConfig /\ RunDeferred.called) => InFlight = {}

\* C3: stop() takes effect once: at most one DeferredList (drain) is ever
\* created, and RunDeferred.callback is never called a second time.
C3_IdempotentStop == ValidConfig => (Len(drains) <= 1 /\ errors = 0)

\* C4: without a time limit and with requests >= Concurrency, whenever the
\* reactor is between callbacks after the fan-out and stop() has not been
\* called, exactly Concurrency requests are in flight.
C4_ConcurrencyPinned ==
  (Timelimit = 0 /\ Concurrency >= 0 /\ requests >= Concurrency
     /\ pc = "reactor" /\ ~Stopped)
  => Cardinality(InFlight) = Concurrency

C4_Witness ==
  /\ Timelimit = 0 /\ Concurrency >= 2 /\ requests >= Concurrency
  /\ pc = "reactor" /\ ~Stopped
  /\ QueriesMade > Concurrency
  /\ \E i \in 1..Len(Results) : Results[i].Code = PyFailure

\* C5: an agent never has two requests in flight: every earlier request of
\* the agent has completed when a later one exists; hence at most
\* Concurrency requests are in flight.
C5_SerialSlotReuse ==
  /\ \A i, j \in 1..Len(dfrs) :
       (i < j /\ dfrs[i].agent = dfrs[j].agent) => dfrs[i].called
  /\ \A a \in 1..NumAgents :
       Cardinality({d \in InFlight : dfrs[d].agent = a}) <= 1
  /\ Cardinality(InFlight) <= NumAgents

C5_Witness ==
  /\ Concurrency >= 2
  /\ Cardinality(InFlight) = Concurrency
  /\ \E i, j \in 1..Len(dfrs) :
       i < j /\ dfrs[i].agent = dfrs[j].agent /\ ~dfrs[j].called

\* C6: once self.Stopped is true no step sends a request (QueriesMade does
\* not change), the later iterations of a running dispatch loop included.
C6_NoDispatchAfterStop ==
  [][(ValidConfig /\ Stopped) => QueriesMade' = QueriesMade]_vars

\* C7: with Concurrency < 1 or requests < 1 the run is rejected before any
\* request is sent: no request is ever sent.
C7_ConfigCheck == (Concurrency < 1 \/ requests < 1) => QueriesMade = 0

\* C8: with Concurrency >= 1 and requests >= 1, time limit or not, if every
\* request completes then the run deferred eventually fires with self.Results.
C8_Termination ==
  ValidConfig => <>(RunDeferred.called /\ RunDeferred.result = Results)

C8_Witness ==
  /\ ValidConfig
  /\ RunDeferred.called
  /\ InFlight = {}
  /\ Len(RunDeferred.result) >= 2

\* what of the state decides which requests are sent and when the run ends
Scheduling(s) ==
  <<s.QueriesMade, s.Stopped, s.ActiveQueries, s.dfrs, s.drains,
    s.RunDeferred.called, Len(s.RunDeferred.result), s.errors, s.StopCall,
    Len(s.Results), s.Requests>>

\* C9: a request that fails is stamped with the failure on its own Result,
\* sends at most the one next request of its agent (no retry besides it) and
\* leaves the scheduling state exactly as a response would; without a time
\* limit the number sent when the test is over depends on the configuration
\* only, and a test whose requests have all completed has fired the run
\* deferred.
C9_FailureLikeSuccess ==
  /\ \A d \in InFlight :
       pc = "reactor" =>
         LET f == fire(Self, d, PyFailure)
             r == dfrs[d].result
         IN /\ \A ok \in Responses :
                 Scheduling(f) = Scheduling(fire(Self, d, ok))
            /\ f.Results[r].Code = PyFailure
            /\ f.Results[r].Finished = clock + 1
            /\ \A i \in 1..Len(Results) : i # r => f.Results[i] = Results[i]
            /\ f.QueriesMade <= QueriesMade + 1
            /\ f.QueriesMade = QueriesMade + 1 =>
                 /\ f.dfrs[Len(f.dfrs)].agent = dfrs[d].agent
                 /\ ~Stopped
  /\ (Timelimit = 0 /\ ValidConfig /\ pc = "reactor" /\ InFlight = {}) =>
       QueriesMade = Max(requests, Concurrency)
  /\ (ValidConfig /\ pc = "reactor" /\ InFlight = {}) => RunDeferred.called

C9_Witness ==
  /\ ValidConfig
  /\ RunDeferred.called
  /\ InFlight = {}
  /\ QueriesMade > Concurrency
  /\ QueriesMade >= 3
  /\ \A i \in 1..Len(Results) : Results[i].Code = PyFailure

\* C10: the stop timer fires only while the test is running; the step in
\* which it fires and every later step send no request and leave every
\* request that was in flight in flight until it completes; from then on the
\* run deferred has fired exactly when nothing is in flight, and at most one
\* Result per agent, so at most Concurrency in all, finished after the timer.
C10_DeadlineStop ==
  /\ [](StopCall.called =>
          /\ Stopped
          /\ RunDeferred.called <=> InFlight = {}
          /\ Cardinality(FinishedAfter(StopCall.time)) <= NumAgents
          /\ \A a \in 1..NumAgents :
               Cardinality({d \in 1..Len(dfrs) :
                              /\ dfrs[d].agent = a
                              /\ Results[dfrs[d].result].Finished > StopCall.time})
                 <= 1)
  /\ [][/\ (~StopCall.called /\ StopCall'.called) =>
             (~Stopped /\ pc = "reactor" /\ dfrs' = dfrs /\ Results' = Results)
        /\ StopCall'.called =>
             /\ QueriesMade' = QueriesMade
             /\ Len(dfrs') = Len(dfrs)
             /\ Cardinality(InFlight') >= Cardinality(InFlight) - 1]_vars

C10_Witness ==
  /\ StopCall.called
  /\ RunDeferred.called
  /\ Concurrency >= 2
  /\ QueriesMade > Concurrency
  /\ Cardinality(FinishedAfter(StopCall.time)) = Concurrency

\* the run is one the budget claims cover: valid arguments and at least as
\* many requests as agents
PlainRun == ValidConfig /\ requests >= Concurrency

\* C11 (as stated): self.Results holds completed Results only.
C11_FilledAtCompletion ==
  PlainRun => \A i \in 1..Len(Results) : Results[i].Finished # 0

\* C11 (amended): a Result is put in self.Results by the dispatch step, not
\* yet finished, and the completion handler stamps it in place: no step
\* removes or moves an entry, every entry a step adds is unfinished, the list
\* is in dispatch order and holds the Result of every request in flight.
C11_FilledAtDispatch ==
  /\ [](/\ \A i, j \in 1..Len(Results) :
             i < j => Results[i].Started <= Results[j].Started
        /\ \A d \in InFlight : Results[dfrs[d].result].Finished = 0)
  /\ [][/\ Len(Results') >= Len(Results)
        /\ \A i \in 1..Len(Results) : Results'[i].Started = Results[i].Started
        /\ \A i \in (Len(Results) + 1)..Len(Results') :
             Results'[i].Finished = 0 /\ Results'[i].Started = clock']_vars

C11_Witness ==
  /\ PlainRun
  /\ \E i, j \in 1..Len(Results) :
       /\ i < j
       /\ Results[i].Finished = 0
       /\ Results[j].Finished # 0
       /\ Results[j].Started > Results[i].Started

\* C12: under a time limit the requests argument has no influence: run()
\* leaves the same state whatever value self.Requests was constructed with,
\* from then on self.Requests is the fixed value of run(), and stop() is
\* called only by the timer or on reaching that value, never on having sent
\* `requests` requests.
C12_TimelimitOverridesCount ==
  Timelimit # 0 =>
    /\ pc = "init" =>
         \A r \in -1..MaxRequests :
           run([Self EXCEPT !.Requests = r]) = run(Self)
    /\ pc # "init" => Requests = TimelimitRequests
    /\ Stopped => (StopCall.called \/ QueriesMade >= TimelimitRequests)

C12_Witness ==
  /\ Timelimit # 0
  /\ PlainRun
  /\ pc = "reactor"
  /\ QueriesMade > requests
  /\ ~Stopped

\* C13: in a run under a time limit with self.Requests >= Concurrency,
\* stop() is called at most once: a stop on reaching the budget cancels the
\* timer, a cancelled timer never fires, and after the timer has fired (or
\* after any stop) no further stop happens and no request is sent.
C13_OneStopTrigger ==
  /\ []((Timelimit # 0 /\ Concurrency >= 1 /\ pc # "init"
           /\ Requests >= Concurrency) =>
          /\ Len(drains) <= 1
          /\ errors = 0
          /\ ~(StopCall.called /\ StopCall.cancelled)
          /\ Stopped <=> Len(drains) = 1
          /\ Stopped <=> (StopCall.called \/ StopCall.cancelled)
          /\ StopCall.cancelled => QueriesMade = Requests
          /\ StopCall.called => QueriesMade < Requests)
  /\ [][/\ StopCall.cancelled => StopCall' = StopCall
        /\ Stopped => (drains' # drains => Len(drains') = Len(drains))
        /\ Stopped => QueriesMade' = QueriesMade]_vars

C13_Witness ==
  /\ Concurrency >= 2
  /\ QueriesMade = TimelimitRequests
  /\ Stopped
  /\ StopCall.cancelled
  /\ ~StopCall.called
  /\ InFlight # {}

\* C15: under a time limit self.Requests is TimelimitRequests: never more
\* than that many requests are sent, and the dispatch that reaches it stops
\* the run and cancels the timer that has not fired.
C15_SentinelCap ==
  (Timelimit # 0 /\ pc # "init") =>
    /\ Requests = TimelimitRequests
    /\ QueriesMade <= TimelimitRequests
    /\ QueriesMade = TimelimitRequests =>
         /\ Stopped
         /\ Len(drains) = 1
         /\ StopCall.cancelled
         /\ ~StopCall.called
    /\ (~Stopped /\ pc = "reactor") =>
         (QueriesMade < TimelimitRequests /\ active(StopCall))

C15_Witness ==
  /\ Timelimit # 0
  /\ RunDeferred.called
  /\ Len(RunDeferred.result) = TimelimitRequests
  /\ StopCall.cancelled
  /\ InFlight = {}

\* the states CapNearBudget starts from are the states the run from
\* construction is in at that number of requests
CapNearBudgetReached ==
  (pc = "reactor" /\ ~Stopped /\ QueriesMade >= Concurrency) =>
     Self = Underway(Concurrency, QueriesMade)

C16_FaultEndsRun ==
  /\ [](PlainRun =>
          \A k \in 1..Len(raised) :
            /\ Results[dfrs[raised[k].dfr].result] = raised[k].result
            /\ ~RunDeferred.called)
  /\ [][(PlainRun /\ raised' # raised) =>
          QueriesMade' = raised'[Len(raised')].sent]_vars

\* C17: self.Results has one entry per request sent, from the dispatch on:
\* its length is QueriesMade, which is the number of requests issued to the
\* transport, and entry i is the Result bound to the callbacks of the i-th
\* request issued, started and never another request's.
C17_OneEntryPerRequest ==
  /\ Len(Results) = QueriesMade
  /\ Len(dfrs) = QueriesMade
  /\ \A d \in 1..Len(dfrs) :
       /\ dfrs[d].result = d
       /\ Results[d].Started # 0
       /\ ~dfrs[d].called => Results[d] = start(NewResult, Results[d].Started)

C17_Witness ==
  /\ pc = "reactor"
  /\ Concurrency >= 2
  /\ QueriesMade > Concurrency
  /\ Len(Results) = QueriesMade
  /\ InFlight # {}
  /\ \E i \in 1..Len(Results) : Results[i].Code = PyFailure

C19_DeliveredResultsFinished ==
  (Concurrency >= 1 /\ Requests >= Concurrency /\ RunDeferred.called) =>
    /\ Len(RunDeferred.result) = QueriesMade
    /\ RunDeferred.result = Results
    /\ \A i \in 1..Len(RunDeferred.result) :
         /\ RunDeferred.result[i].Finished # 0
         /\ RunDeferred.result[i].Code # PyInt(0)

C19_Witness ==
  /\ Concurrency >= 2
  /\ Requests >= Concurrency
  /\ RunDeferred.called
  /\ Len(RunDeferred.result) > Concurrency
  /\ RunDeferred.result[Len(RunDeferred.result)].Finished # 0
  /\ RunDeferred.result[Len(RunDeferred.result)].Finished
       < RunDeferred.result[1].Finished

====
